---- MODULE Spec2Model ----
(***************************************************************************)
(* A model of xpRegGenomeLib's signal-track tools:                         *)
(*   scripts/merge_multi_bw.py  MergeMultiBw.combine_bw_intervals and      *)
(*                              MergeMultiBw.merge_bw_files                *)
(*   scripts/count_bw_sig.py    count_single_region,                       *)
(*                              args_check_and_preprocessing and main      *)
(*   scripts/RGTools/BedTable.py  BedTable3 (load, _is_sorted, _sort,      *)
(*                              apply_logical_filter, region_subset)       *)
(*                                                                         *)
(* A signal interval is the tuple <<start, end, value>> (half-open), as in *)
(* the Python code, where it is (start, end, value).  Signal values are    *)
(* integers here; Python sequences are 0-based and TLA+ sequences 1-based, *)
(* so rep[pointer] of the code is rep[pointer + 1] below.                  *)
(***************************************************************************)
EXTENDS Integers, Sequences, FiniteSets, TLC

\* ------------------------------------------------------------------ bounds

\* The longest chromosome of the model (positions 0 .. MaxLen - 1).
MaxLen == 3

\* The signal values stored in the input tracks (1 and -1 cancel).
Values == {-1, 1, 2}

\* ------------------------------------------------------------ signal tracks

\* Every interval <<s, e, v>> with lo <= s < e <= hi.
IntervalsIn(lo, hi) ==
    {<<s, e, v>> : s \in lo..hi, e \in lo..hi, v \in Values} \
    {iv \in {<<s, e, v>> : s \in lo..hi, e \in lo..hi, v \in Values} : iv[1] >= iv[2]}

\* Sorted by start, pairwise non-overlapping (touching is allowed).
IsTrack(t) ==
    /\ \A k \in 1..Len(t) : t[k][1] < t[k][2]
    /\ \A k \in 1..(Len(t) - 1) : t[k][2] <= t[k + 1][1]

\* No two touching neighbours carry the same value: every interval is a
\* maximal constant run.
IsCoalesced(t) ==
    \A k \in 1..(Len(t) - 1) :
        t[k][2] = t[k + 1][1] => t[k][3] # t[k + 1][3]

\* Every interval of t lies in [0, hi].
Within(t, hi) ==
    \A k \in 1..Len(t) : 0 <= t[k][1] /\ t[k][2] <= hi

\* All tracks over [lo, hi]: the empty one, or a first interval followed by a
\* track to the right of it.
RECURSIVE TracksFrom(_, _)
TracksFrom(lo, hi) ==
    IF lo >= hi THEN {<<>>}
    ELSE {<<>>} \cup
         UNION {{<<iv>> \o rest : rest \in TracksFrom(iv[2], hi)} :
                    iv \in IntervalsIn(lo, hi)}

Tracks == TracksFrom(0, MaxLen)

\* The value a track stores at position p, 0 where no interval covers p.
ValueAt(t, p) ==
    IF \E k \in 1..Len(t) : t[k][1] <= p /\ p < t[k][2]
    THEN LET k == CHOOSE j \in 1..Len(t) : t[j][1] <= p /\ p < t[j][2]
         IN  t[k][3]
    ELSE 0

Covered(t, p) == \E k \in 1..Len(t) : t[k][1] <= p /\ p < t[k][2]

\* ------------------------------------------- combine_bw_intervals (pure)

\* Lines 63-64 / 66-67: move past the current interval once i reached its end.
AdvancePointer(rep, pointer, i) ==
    IF pointer < Len(rep) /\ i >= rep[pointer + 1][2]
    THEN pointer + 1
    ELSE pointer

\* Lines 71-72 / 74-75: the current interval's value once i reached its start.
ActiveSignal(rep, pointer, i) ==
    IF pointer < Len(rep) /\ i >= rep[pointer + 1][1]
    THEN rep[pointer + 1][3]
    ELSE 0

\* Lines 83-88 / 94-99: the run held in temp_signal_stack, closed at i.
ClosedRun(stack, i) == <<i - Len(stack), i, stack[Len(stack)]>>

\* A faulty run update: a position repeating the run's value closes the run
\* and opens a new one instead of extending it.
RunUpdateNoExtend(signal, stack, merged, i) ==
    IF signal # 0 /\ Len(stack) = 0
    THEN [stack |-> Append(stack, signal), merged |-> merged]
    ELSE IF signal # 0
    THEN [stack |-> <<signal>>, merged |-> Append(merged, ClosedRun(stack, i))]
    ELSE IF Len(stack) # 0
    THEN [stack |-> <<>>, merged |-> Append(merged, ClosedRun(stack, i))]
    ELSE [stack |-> stack, merged |-> merged]

\* Lines 77-103: the if / elif chain on (signal, temp_signal_stack).
RunUpdate(signal, stack, merged, i) ==
    IF signal # 0 /\ Len(stack) = 0
    THEN [stack |-> Append(stack, signal), merged |-> merged]
    ELSE IF signal # 0 /\ stack[Len(stack)] = signal
    THEN [stack |-> Append(stack, signal), merged |-> merged]
    ELSE IF signal # 0 /\ stack[Len(stack)] # signal
    THEN [stack |-> <<signal>>, merged |-> Append(merged, ClosedRun(stack, i))]
    ELSE IF Len(stack) # 0
    THEN [stack |-> <<>>, merged |-> Append(merged, ClosedRun(stack, i))]
    ELSE [stack |-> stack, merged |-> merged]

\* A sweep that appends the run still held in the stack after the loop.
RECURSIVE SweepFlushing(_, _, _, _, _, _, _, _)
SweepFlushing(rep1, rep2, chrom_length, i, rep1_pointer, rep2_pointer, stack, merged) ==
    IF i >= chrom_length
    THEN IF Len(stack) # 0 THEN Append(merged, ClosedRun(stack, i)) ELSE merged
    ELSE LET p1     == AdvancePointer(rep1, rep1_pointer, i)
             p2     == AdvancePointer(rep2, rep2_pointer, i)
             signal == ActiveSignal(rep1, p1, i) + ActiveSignal(rep2, p2, i)
             u      == RunUpdate(signal, stack, merged, i)
         IN  SweepFlushing(rep1, rep2, chrom_length, i + 1, p1, p2, u.stack, u.merged)

\* Lines 58-105: the loop "for i in range(chrom_length)" and the return.
\* Nothing follows the loop: a run still held in the stack is not appended.
RECURSIVE Sweep(_, _, _, _, _, _, _, _)
Sweep(rep1, rep2, chrom_length, i, rep1_pointer, rep2_pointer, stack, merged) ==
    IF i >= chrom_length THEN merged
    ELSE LET p1     == AdvancePointer(rep1, rep1_pointer, i)
             p2     == AdvancePointer(rep2, rep2_pointer, i)
             signal == ActiveSignal(rep1, p1, i) + ActiveSignal(rep2, p2, i)
             u      == RunUpdate(signal, stack, merged, i)
         IN  Sweep(rep1, rep2, chrom_length, i + 1, p1, p2, u.stack, u.merged)

\* Lines 38-105.
combine_bw_intervals(rep1, rep2, chrom_length) ==
    Sweep(rep1, rep2, chrom_length, 0, 0, 0, <<>>, <<>>)


\* ------------------------------------------------ merge_bw_files: the files

\* The most replicate paths handed to merge_bw_files.
MaxReps == 3

ChromNames == {"chr1", "chr2"}

\* What rep_bw.intervals(chrom) does on one chromosome of a file: it raises
\* RuntimeError ("err"), returns None ("none"), or returns the intervals
\* stored there ("ivs", possibly none at all).
LookupErr  == [kind |-> "err",  ivs |-> <<>>]
LookupNone == [kind |-> "none", ivs |-> <<>>]
Stored(t)  == [kind |-> "ivs",  ivs |-> t]

NoData == [c \in ChromNames |-> LookupErr]

\* A path of the file system holds a file or nothing.
Absent     == [exists |-> FALSE, data |-> NoData]
File(data) == [exists |-> TRUE,  data |-> data]

\* Line 127: opath + ".{}.temp.bw".format(len(rep_bw_paths)).
TempPath(opath, n) == opath \o "." \o ToString(n) \o ".temp.bw"

OutPath == "out.bw"

\* The replicate paths of the model; the last one is spelled like the
\* temporary of the last pairing step for OutPath.
RepNames == {"a.bw", "b.bw", "c.bw", "out.bw.0.temp.bw"}

AllPaths == RepNames \cup {OutPath} \cup {TempPath(OutPath, n) : n \in 0..MaxReps}

\* A reader handle: the file's content as it was when the path was opened
\* (an open file keeps its content when its path is removed or rewritten).
NoReader == [path |-> "", data |-> NoData, open |-> FALSE]

\* A writer handle: per chromosome, whether addEntries was called and with
\* which intervals.
NoEntries  == [called |-> FALSE, ivs |-> <<>>]
Entries(t) == [called |-> TRUE,  ivs |-> t]
NoWriter   == [path |-> "", entries |-> [c \in ChromNames |-> NoEntries], open |-> FALSE]

\* What a finished temporary file returns on a later lookup: the intervals
\* added for the chromosome, None where no interval was added.
WrittenData(entries) ==
    [c \in ChromNames |->
        IF entries[c].called /\ Len(entries[c].ivs) > 0
        THEN Stored(entries[c].ivs)
        ELSE LookupNone]

\* Line 112.
TooFewFilesBelowOne(num_bw_files) == num_bw_files < 1

TooFewFiles(num_bw_files) == num_bw_files < 2

\* Lines 137-149: a lookup that raises RuntimeError or returns None counts
\* as the empty tuple.
IntervalsOrEmpty(reader, chrom) ==
    LET r == reader.data[chrom] IN
    IF r.kind = "err" THEN <<>>
    ELSE IF r.kind = "none" THEN <<>>
    ELSE r.ivs

\* A faulty choice: the empty side is passed on instead of the other one.
MergedForChromSwapped(rep1_chrom_intervals, rep2_chrom_intervals, chrom_length) ==
    IF Len(rep1_chrom_intervals) = 0 /\ Len(rep2_chrom_intervals) = 0
    THEN NoEntries
    ELSE IF Len(rep1_chrom_intervals) = 0 /\ Len(rep2_chrom_intervals) # 0
    THEN Entries(rep1_chrom_intervals)
    ELSE IF Len(rep1_chrom_intervals) # 0 /\ Len(rep2_chrom_intervals) = 0
    THEN Entries(rep2_chrom_intervals)
    ELSE Entries(combine_bw_intervals(rep1_chrom_intervals,
                                      rep2_chrom_intervals, chrom_length))

\* Lines 155-174: what is handed to addEntries for one chromosome (nothing
\* when both replicates are empty there).
MergedForChrom(rep1_chrom_intervals, rep2_chrom_intervals, chrom_length) ==
    IF Len(rep1_chrom_intervals) = 0 /\ Len(rep2_chrom_intervals) = 0
    THEN NoEntries
    ELSE IF Len(rep1_chrom_intervals) = 0 /\ Len(rep2_chrom_intervals) # 0
    THEN Entries(rep2_chrom_intervals)
    ELSE IF Len(rep1_chrom_intervals) # 0 /\ Len(rep2_chrom_intervals) = 0
    THEN Entries(rep1_chrom_intervals)
    ELSE Entries(combine_bw_intervals(rep1_chrom_intervals,
                                      rep2_chrom_intervals, chrom_length))

\* Line 120: "while len(rep_bw_paths) >= 2".
LoopTarget(paths) == IF Len(paths) >= 2 THEN "pop" ELSE "finish"

Range(seq) == {seq[k] : k \in 1..Len(seq)}


\* ---------------------------------------- count_single_region: the readers

\* Regions lie in [0, MaxCoord].
MaxCoord == 3

\* l_pad and r_pad are drawn from -MaxPad .. MaxPad.
MaxPad == 1

\* min_len_after_padding is drawn from 1 .. MaxMinLen (line 184 of
\* args_check_and_preprocessing refuses a value below 1).
MaxMinLen == 2

\* Line 292: reads per kilobase.
PerKilobase == 1000

\* bw.values(chrom, start, end): one entry per base of [start, end), nan
\* where the file stores no value.
BwValues(bw, chrom_name, from, to) ==
    [k \in 1..(to - from) |->
        IF Covered(bw[chrom_name], from + k - 1)
        THEN [nan |-> FALSE, v |-> ValueAt(bw[chrom_name], from + k - 1)]
        ELSE [nan |-> TRUE,  v |-> 0]]

\* np.nan_to_num(...).sum(): nan counts as 0.
RECURSIVE NanToNumSum(_, _)
NanToNumSum(vals, k) ==
    IF k = 0 THEN 0
    ELSE (IF vals[k].nan THEN 0 ELSE vals[k].v) + NanToNumSum(vals, k - 1)

\* Lines 264-268.
PlusCount(bw, chrom_name, from, to) ==
    LET vals == BwValues(bw, chrom_name, from, to) IN NanToNumSum(vals, Len(vals))

\* A faulty minus count: the sum is not negated.
MinusCountNotNegated(bw, chrom_name, from, to) ==
    LET vals == BwValues(bw, chrom_name, from, to) IN NanToNumSum(vals, Len(vals))

\* Lines 275-279: the negated sum of the minus reader.
MinusCount(bw, chrom_name, from, to) ==
    LET vals == BwValues(bw, chrom_name, from, to) IN -NanToNumSum(vals, Len(vals))

\* A faulty minus count of single-track mode: the minus reader's (negated)
\* sum is counted although single_bw is set.
MnCountIgnoringSingle(single, bw, chrom_name, from, to) ==
    MinusCount(bw, chrom_name, from, to)

\* Lines 269-279: mn_count is 0 in single-track mode, the negated minus sum
\* otherwise.
MnCount(single, bw, chrom_name, from, to) ==
    IF single THEN 0 ELSE MinusCount(bw, chrom_name, from, to)

\* A faulty test: a padded length one below the minimum still passes.
PaddingInvalidOffByOne(from, to, lp, rp, min_len) ==
    - lp - rp + min_len > to - from + 1

\* The test of the spec text: the unpadded length is below the minimum plus
\* both paddings.
PaddingInvalidAsSpecified(from, to, lp, rp, min_len) ==
    (to - from) < (min_len + lp + rp)

\* Line 252: "- l_pad - r_pad + min_len_after_padding > end - start".
PaddingInvalid(from, to, lp, rp, min_len) ==
    - lp - rp + min_len > to - from

\* Lines 281-286: the count of the strand; no branch assigns count for
\* another strand.
StrandCount(strand_name, pl_count, mn_count) ==
    IF strand_name = "+" THEN [bound |-> TRUE, v |-> pl_count]
    ELSE IF strand_name = "-" THEN [bound |-> TRUE, v |-> mn_count]
    ELSE IF strand_name = "." THEN [bound |-> TRUE, v |-> pl_count + mn_count]
    ELSE [bound |-> FALSE, v |-> 0]

\* A faulty output: RPK divides by the length of the closed interval
\* [start, end].
OutputInclusiveLength(kind, count, from, to) ==
    IF kind = "raw_count" THEN [bound |-> TRUE, num |-> count, den |-> 1]
    ELSE IF kind = "RPK"
    THEN [bound |-> TRUE, num |-> count * PerKilobase, den |-> to - from + 1]
    ELSE [bound |-> FALSE, num |-> 0, den |-> 1]

\* Lines 288-292: the output as the fraction num / den (raw_count: count / 1,
\* RPK: count / region_length * 1000).
Output(kind, count, from, to) ==
    IF kind = "raw_count" THEN [bound |-> TRUE, num |-> count, den |-> 1]
    ELSE IF kind = "RPK"
    THEN [bound |-> TRUE, num |-> count * PerKilobase, den |-> to - from]
    ELSE [bound |-> FALSE, num |-> 0, den |-> 1]

NoOutput == [bound |-> FALSE, num |-> 0, den |-> 1]


\* ------------------------------------------------------- BedTable3: the rows

\* A table holds at most MaxRows rows.
MaxRows == 3

\* The coordinates of the rows and of the bounds asked for.
BedCoords == {0, 1, 2}

\* The chromosome names of the tables, with their rank in Python's string
\* order: "chr10" < "chr2".
BedChroms == {"chr10", "chr2"}

ChromRank(c) == IF c = "chr10" THEN 1 ELSE 2

\* A row is <<chrom, start, end>> with start < end.
BedRows ==
    {r \in BedChroms \X BedCoords \X BedCoords : r[2] < r[3]}

\* A faulty scan: rows that differ only in their end are not compared.
IsSortedIgnoringEnd(rows, i) ==
    \A j \in (i + 1)..Len(rows) :
        ~ \/ ChromRank(rows[j][1]) < ChromRank(rows[j - 1][1])
          \/ /\ rows[j][1] = rows[j - 1][1]
             /\ rows[j][2] < rows[j - 1][2]

\* Lines 198-208 of _is_sorted, from row i (0-based) on: False at the first
\* row that is before its predecessor, True after the last row.
RECURSIVE IsSortedFrom(_, _)
IsSortedFrom(rows, i) ==
    IF i >= Len(rows) THEN TRUE
    ELSE IF ChromRank(rows[i + 1][1]) < ChromRank(rows[i][1]) THEN FALSE
    ELSE IF /\ rows[i + 1][1] = rows[i][1]
            /\ rows[i + 1][2] < rows[i][2] THEN FALSE
    ELSE IF /\ rows[i + 1][1] = rows[i][1]
            /\ rows[i + 1][2] = rows[i][2]
            /\ rows[i + 1][3] < rows[i][3] THEN FALSE
    ELSE IsSortedFrom(rows, i + 1)

\* Lines 194-208: BedTable3._is_sorted.
is_sorted(rows) == IsSortedFrom(rows, 1)

\* The order of sort_values(by=["chrom", "start", "end"]): whether row a
\* may not come after row b.
KeyLeq(a, b) ==
    \/ ChromRank(a[1]) < ChromRank(b[1])
    \/ a[1] = b[1] /\ a[2] < b[2]
    \/ a[1] = b[1] /\ a[2] = b[2] /\ a[3] <= b[3]

\* One row put into a sorted sequence, behind the rows with an equal key.
RECURSIVE InsertRow(_, _)
InsertRow(row, sorted) ==
    IF sorted = <<>> THEN <<row>>
    ELSE IF KeyLeq(sorted[1], row)
    THEN <<sorted[1]>> \o InsertRow(row, Tail(sorted))
    ELSE <<row>> \o sorted

\* Lines 187-192: BedTable3._sort (sort_values, then a fresh index).
RECURSIVE SortFirst(_, _)
SortFirst(rows, n) ==
    IF n = 0 THEN <<>> ELSE InsertRow(rows[n], SortFirst(rows, n - 1))

sort(rows) == SortFirst(rows, Len(rows))

\* Lines 55-71 and 73-97: the table after load_from_file or
\* load_from_dataframe read these rows.
load_from_dataframe(rows) == IF ~is_sorted(rows) THEN sort(rows) ELSE rows

\* _data_df.loc[mask]: the rows whose mask entry is True, in table order.
RECURSIVE RowsWhere(_, _, _)
RowsWhere(rows, mask, n) ==
    IF n = 0 THEN <<>>
    ELSE IF mask[n] THEN Append(RowsWhere(rows, mask, n - 1), rows[n])
    ELSE RowsWhere(rows, mask, n - 1)

\* Lines 99-112: BedTable3.apply_logical_filter.
apply_logical_filter(rows, logical_array) ==
    load_from_dataframe(RowsWhere(rows, logical_array, Len(rows)))

\* A faulty subset: rows that overlap [start, end) are kept.
SubsetMaskOverlap(rows, chrom_name, from, to) ==
    [k \in 1..Len(rows) |->
        rows[k][1] = chrom_name /\ rows[k][2] < to /\ rows[k][3] > from]

\* Lines 121-123: the three selections of region_subset, as one mask.
SubsetMask(rows, chrom_name, from, to) ==
    [k \in 1..Len(rows) |->
        rows[k][1] = chrom_name /\ rows[k][2] >= from /\ rows[k][3] <= to]

\* Lines 114-130: BedTable3.region_subset.
region_subset(rows, chrom_name, from, to) ==
    load_from_dataframe(
        RowsWhere(rows, SubsetMask(rows, chrom_name, from, to), Len(rows)))


\* ------------------------------------------------ count_bw_sig: main's steps

\* A run has at most MaxSamples sample names and bigwig paths per list.
MaxSamples == 2

\* The region file has at most MaxRegions rows.
MaxRegions == 2

\* Lines 26-30: the keys of REGION_FILE_SUFFIX2CLASS_DICT.
REGION_FILE_SUFFIX2CLASS_DICT == {"bed3", "bed6", "bed6gene"}

\* A faulty validation: the padding policy is not checked.
ArgsErrorNoMethodCheck(a, region_file_exists) ==
    IF a.single_bw /\ ~a.ignore_strandness THEN "strandness"
    ELSE IF \/ Len(a.sample_names) # Len(a.bw_pls)
            \/ Len(a.sample_names) # Len(IF a.single_bw THEN a.bw_pls ELSE a.bw_mns)
    THEN "cardinality"
    ELSE IF ~region_file_exists THEN "region file"
    ELSE IF a.region_file_type \notin REGION_FILE_SUFFIX2CLASS_DICT THEN "file type"
    ELSE IF a.output_type \notin {"raw_count", "RPK"} THEN "output type"
    ELSE IF ~(a.min_len_after_padding >= 1) THEN "min_len"
    ELSE ""

\* Lines 161-188: the first check of args_check_and_preprocessing that fails,
\* "" when all pass (bw_mns is bw_pls in single-track mode, lines 161-163).
ArgsError(a, region_file_exists) ==
    IF a.single_bw /\ ~a.ignore_strandness THEN "strandness"
    ELSE IF \/ Len(a.sample_names) # Len(a.bw_pls)
            \/ Len(a.sample_names) # Len(IF a.single_bw THEN a.bw_pls ELSE a.bw_mns)
    THEN "cardinality"
    ELSE IF ~region_file_exists THEN "region file"
    ELSE IF a.region_file_type \notin REGION_FILE_SUFFIX2CLASS_DICT THEN "file type"
    ELSE IF a.output_type \notin {"raw_count", "RPK"} THEN "output type"
    ELSE IF ~(a.min_len_after_padding >= 1) THEN "min_len"
    ELSE IF a.method_resolving_invalid_padding \notin {"raise", "fallback"}
    THEN "method"
    ELSE ""

\* Line 222: the index of a region, chrom + "_" + str(start) + "_" + str(end).
RegionId(r) == r[1] \o "_" \o ToString(r[2]) \o "_" \o ToString(r[3])

\* Lines 226-294: count_single_region as a function of its arguments: whether
\* it raises, the readers it queried before, and the output it returns.
count_single_region(pl, mn, chrom_name, from, to, strand_name, single, kind, lp, rp, min_len, method) ==
    LET invalid == PaddingInvalid(from, to, lp, rp, min_len)
        q_start == IF invalid THEN from ELSE from - lp
        q_end   == IF invalid THEN to ELSE to + rp
        pl_count == PlusCount(pl, chrom_name, q_start, q_end)
        mn_count == MnCount(single, mn, chrom_name, q_start, q_end)
        count    == StrandCount(strand_name, pl_count, mn_count)
        output   == Output(kind, count.v, q_start, q_end)
    IN  IF invalid /\ method # "fallback"
        THEN [raised |-> TRUE, queried |-> <<>>, output |-> NoOutput]
        ELSE IF single /\ strand_name # "."
        THEN [raised |-> TRUE, queried |-> <<"bw_pl">>, output |-> NoOutput]
        ELSE IF ~(count.bound /\ output.bound)
        THEN [raised |-> TRUE,
              queried |-> IF single THEN <<"bw_pl">> ELSE <<"bw_pl", "bw_mn">>,
              output |-> NoOutput]
        ELSE [raised |-> FALSE,
              queried |-> IF single THEN <<"bw_pl">> ELSE <<"bw_pl", "bw_mn">>,
              output |-> output]

\* ------------------------------------------------------------------- state

VARIABLES
    cb_rep1,            \* combine_bw_intervals: argument rep1
    cb_rep2,            \* argument rep2
    cb_chrom_length,    \* argument chrom_length
    cb_result,          \* the returned merged_interval_list
    cb_pc,              \* "call" before the call, "done" after the return
    \* merge_bw_files
    rep_bw_paths,       \* the path list (popped from and appended to)
    chroms,             \* chromosome names
    chrom_sizes,        \* chromosome lengths
    opath,              \* the destination path
    fs,                 \* the file system: path -> file or nothing
    temp_files,         \* the list temp_files
    rep1_bw,            \* reader handles of the current pairing step
    rep2_bw,
    merged_bw,          \* writer handle of the current pairing step
    chrom_idx,          \* position of the loop over zip(chroms, chrom_sizes)
    m_pc,               \* where merge_bw_files stands
    m_error,            \* the exception that left the function, "" if none
    io_fault,           \* how many I/O operations the environment may fail
    init_paths,         \* history: the caller's list at the call
    init_fs,            \* history: the file system at the call
    pairings,           \* history: the finished pairing steps
    opened,             \* history: paths opened for reading
    removed,            \* history: paths given to os.remove
    created,            \* history: paths opened for writing
    \* count_single_region
    bw_pl,              \* the plus reader: chromosome -> stored track
    bw_mn,              \* the minus reader
    cs_chrom,           \* arguments chrom, start, end, strand
    cs_start,
    cs_end,
    cs_strand,
    single_bw,
    output_type,
    l_pad,
    r_pad,
    min_len_after_padding,
    method_resolving_invalid_padding,
    query_start,        \* the locals start and end after lines 252-262
    query_end,
    cs_queries,         \* history: the calls of values() made so far
    cs_output,          \* the returned value
    cs_error,           \* the exception raised, "" if none
    cs_pc,              \* "call", "padded", "returned" or "raised"
    \* BedTable3
    bt_input,           \* the rows of the file or data frame, in its order
    bt_rows,            \* the table's _data_df
    bt_call,            \* the last call on the table and its arguments
    bt_result,          \* the rows of the table that call returned
    bt_pc,              \* "new", "loaded" or "derived"
    \* main of count_bw_sig
    args,               \* the parsed command line
    main_fs,            \* the region file, the output directory and its files
    region_file,        \* the rows of the region file, in file order
    region_df,          \* the parsed regions
    count_df,           \* sample -> region id -> output
    sample_idx,         \* samples finished
    region_idx,         \* regions of the current sample finished
    main_bw_pl,         \* the handle bound to bw_pl, 0 before the first open
    main_bw_mn,         \* the handle bound to bw_mn
    handles,            \* per handle opened: path, sample, data, close() calls
    events,             \* the opens, reads, closes and writes so far, in order
    main_pc,            \* where main is
    main_error          \* "" or where the run was aborted

cb_vars == <<cb_rep1, cb_rep2, cb_chrom_length, cb_result, cb_pc>>

m_vars == <<rep_bw_paths, chroms, chrom_sizes, opath, fs, temp_files, rep1_bw,
            rep2_bw, merged_bw, chrom_idx, m_pc, m_error, io_fault,
            init_paths, init_fs, pairings, opened, removed, created>>

cs_vars == <<bw_pl, bw_mn, cs_chrom, cs_start, cs_end, cs_strand, single_bw,
             output_type, l_pad, r_pad, min_len_after_padding,
             method_resolving_invalid_padding, query_start, query_end,
             cs_queries, cs_output, cs_error, cs_pc>>

bt_vars == <<bt_input, bt_rows, bt_call, bt_result, bt_pc>>

main_vars == <<args, main_fs, region_file, region_df, count_df, sample_idx,
               region_idx, main_bw_pl, main_bw_mn, handles, events, main_pc,
               main_error>>

vars == <<cb_vars, m_vars, cs_vars, bt_vars, main_vars>>

\* -------------------------------------- specification: combine_bw_intervals

NoCall == [op |-> "", mask |-> <<>>, chrom |-> "", start |-> 0, end |-> 0]

BtIdle ==
    /\ bt_input = <<>> /\ bt_rows = <<>> /\ bt_call = NoCall
    /\ bt_result = <<>> /\ bt_pc = "idle"

MainIdle ==
    /\ args = <<>> /\ main_fs = <<>> /\ region_file = <<>> /\ region_df = <<>>
    /\ count_df = <<>> /\ sample_idx = 0 /\ region_idx = 0
    /\ main_bw_pl = 0 /\ main_bw_mn = 0 /\ handles = <<>> /\ events = <<>>
    /\ main_pc = "idle" /\ main_error = ""

CbIdle ==
    /\ cb_rep1 = <<>> /\ cb_rep2 = <<>> /\ cb_chrom_length = 0
    /\ cb_result = <<>> /\ cb_pc = "idle"

MIdle ==
    /\ rep_bw_paths = <<>> /\ chroms = <<>> /\ chrom_sizes = <<>>
    /\ opath = OutPath /\ fs = [p \in AllPaths |-> Absent]
    /\ temp_files = <<>> /\ rep1_bw = NoReader /\ rep2_bw = NoReader
    /\ merged_bw = NoWriter /\ chrom_idx = 0 /\ m_pc = "idle"
    /\ m_error = "" /\ io_fault = 0 /\ init_paths = <<>>
    /\ init_fs = [p \in AllPaths |-> Absent] /\ pairings = <<>>
    /\ opened = {} /\ removed = {} /\ created = {}

CsIdle ==
    /\ bw_pl = [c \in ChromNames |-> <<>>] /\ bw_mn = [c \in ChromNames |-> <<>>]
    /\ cs_chrom = "" /\ cs_start = 0 /\ cs_end = 0 /\ cs_strand = "."
    /\ single_bw = FALSE /\ output_type = "" /\ l_pad = 0 /\ r_pad = 0
    /\ min_len_after_padding = 0 /\ method_resolving_invalid_padding = ""
    /\ query_start = 0 /\ query_end = 0 /\ cs_queries = <<>>
    /\ cs_output = NoOutput /\ cs_error = "" /\ cs_pc = "idle"

\* A call with two tracks over [0, MaxLen] and a chromosome of MaxLen - 1 or
\* MaxLen bases (the shorter one cuts the tracks that reach MaxLen).
CbInit ==
    /\ cb_rep1 \in Tracks
    /\ cb_rep2 \in Tracks
    /\ cb_chrom_length \in {MaxLen - 1, MaxLen}
    /\ cb_result = <<>>
    /\ cb_pc = "call"
    /\ MIdle
    /\ CsIdle
    /\ BtIdle
    /\ MainIdle

CbCombine ==
    /\ cb_pc = "call"
    /\ cb_result' = combine_bw_intervals(cb_rep1, cb_rep2, cb_chrom_length)
    /\ cb_pc' = "done"
    /\ UNCHANGED <<cb_rep1, cb_rep2, cb_chrom_length>>
    /\ UNCHANGED <<m_vars, cs_vars, bt_vars, main_vars>>

CbNext == CbCombine

SpecCombine == CbInit /\ [][CbNext]_vars


\* ------------------------------------------- specification: merge_bw_files

\* An I/O operation fails when the environment still may fail one.
FaultChoice == IF io_fault > 0 THEN {TRUE, FALSE} ELSE {FALSE}

\* The state at the call merge_bw_files(paths, names, sizes, OutPath) on the
\* file system files.
MCall(paths, names, sizes, files, faults) ==
    /\ rep_bw_paths = paths /\ init_paths = paths
    /\ chroms = names /\ chrom_sizes = sizes
    /\ opath = OutPath
    /\ fs = files /\ init_fs = files
    /\ temp_files = <<>>
    /\ rep1_bw = NoReader /\ rep2_bw = NoReader /\ merged_bw = NoWriter
    /\ chrom_idx = 0
    /\ m_pc = "entry" /\ m_error = ""
    /\ io_fault = faults
    /\ pairings = <<>> /\ opened = {} /\ removed = {} /\ created = {}

MRaise(what) ==
    /\ m_pc' = "raised"
    /\ m_error' = what

\* Lines 110-118: the two checks, then temp_files = [].
MEntry ==
    /\ m_pc = "entry"
    /\ IF TooFewFiles(Len(rep_bw_paths))
       THEN MRaise("ValueError: files")
       ELSE IF Len(chroms) # Len(chrom_sizes)
       THEN MRaise("ValueError: chroms")
       ELSE /\ m_pc' = LoopTarget(rep_bw_paths)
            /\ m_error' = m_error
    /\ temp_files' = <<>>
    /\ UNCHANGED <<rep_bw_paths, chroms, chrom_sizes, opath, fs, rep1_bw,
                   rep2_bw, merged_bw, chrom_idx, io_fault, init_paths,
                   init_fs, pairings, opened, removed, created>>
    /\ UNCHANGED <<cb_vars, cs_vars, bt_vars, main_vars>>

\* Lines 121-125: pop the last two paths and open them for reading.
MPopOpen ==
    /\ m_pc = "pop"
    /\ \E f1 \in FaultChoice, f2 \in FaultChoice :
          LET n             == Len(rep_bw_paths)
              rep1_bw_path  == rep_bw_paths[n]
              rep2_bw_path  == rep_bw_paths[n - 1]
              ok1           == fs[rep1_bw_path].exists /\ ~f1
              ok2           == ok1 /\ fs[rep2_bw_path].exists /\ ~f2
          IN  /\ rep_bw_paths' = SubSeq(rep_bw_paths, 1, n - 2)
              /\ rep1_bw' = IF ok1
                            THEN [path |-> rep1_bw_path,
                                  data |-> fs[rep1_bw_path].data, open |-> TRUE]
                            ELSE rep1_bw
              /\ rep2_bw' = IF ok2
                            THEN [path |-> rep2_bw_path,
                                  data |-> fs[rep2_bw_path].data, open |-> TRUE]
                            ELSE rep2_bw
              /\ opened' = opened \cup (IF ok1 THEN {rep1_bw_path} ELSE {})
                                  \cup (IF ok2 THEN {rep2_bw_path} ELSE {})
              /\ IF ok2
                 THEN m_pc' = "open_temp" /\ m_error' = m_error
                 ELSE MRaise("open")
    /\ UNCHANGED <<chroms, chrom_sizes, opath, fs, temp_files, merged_bw,
                   chrom_idx, io_fault, init_paths, init_fs, pairings,
                   removed, created>>
    /\ UNCHANGED <<cb_vars, cs_vars, bt_vars, main_vars>>

\* Lines 127-132: name the temporary, remove what is at its path, open it
\* for writing (which creates the file) and add the header.
MOpenTemp ==
    /\ m_pc = "open_temp"
    /\ \E f \in FaultChoice :
          LET temp_path == TempPath(opath, Len(rep_bw_paths)) IN
          /\ removed' = IF fs[temp_path].exists
                        THEN removed \cup {temp_path} ELSE removed
          /\ IF f
             THEN /\ fs' = [fs EXCEPT ![temp_path] = Absent]
                  /\ MRaise("open")
                  /\ UNCHANGED <<merged_bw, created, chrom_idx>>
             ELSE /\ fs' = [fs EXCEPT ![temp_path] = File(NoData)]
                  /\ merged_bw' = [path |-> temp_path,
                                   entries |-> [c \in ChromNames |-> NoEntries],
                                   open |-> TRUE]
                  /\ created' = created \cup {temp_path}
                  /\ chrom_idx' = 1
                  /\ m_pc' = IF Len(chroms) = 0 THEN "close" ELSE "chroms"
                  /\ m_error' = m_error
    /\ UNCHANGED <<rep_bw_paths, chroms, chrom_sizes, opath, temp_files,
                   rep1_bw, rep2_bw, io_fault, init_paths, init_fs, pairings,
                   opened>>
    /\ UNCHANGED <<cb_vars, cs_vars, bt_vars, main_vars>>

\* Lines 134-174: one round of the loop over zip(chroms, chrom_sizes).
MMergeChrom ==
    /\ m_pc = "chroms"
    /\ \E f \in FaultChoice :
          LET chrom        == chroms[chrom_idx]
              chrom_length == chrom_sizes[chrom_idx]
              rep1_chrom_intervals == IntervalsOrEmpty(rep1_bw, chrom)
              rep2_chrom_intervals == IntervalsOrEmpty(rep2_bw, chrom)
              added == MergedForChrom(rep1_chrom_intervals,
                                      rep2_chrom_intervals, chrom_length)
          IN  IF added.called /\ f
              THEN /\ MRaise("addEntries")
                   /\ UNCHANGED <<merged_bw, chrom_idx>>
              ELSE /\ merged_bw' = [merged_bw EXCEPT !.entries[chrom] = added]
                   /\ chrom_idx' = chrom_idx + 1
                   /\ m_pc' = IF chrom_idx = Len(chroms) THEN "close" ELSE "chroms"
                   /\ m_error' = m_error
    /\ UNCHANGED <<rep_bw_paths, chroms, chrom_sizes, opath, fs, temp_files,
                   rep1_bw, rep2_bw, io_fault, init_paths, init_fs, pairings,
                   opened, removed, created>>
    /\ UNCHANGED <<cb_vars, cs_vars, bt_vars, main_vars>>

\* Lines 176-181: close the three handles (closing the writer finishes the
\* file), then append temp_path to temp_files and to rep_bw_paths.
MClose ==
    /\ m_pc = "close"
    /\ rep1_bw' = [rep1_bw EXCEPT !.open = FALSE]
    /\ rep2_bw' = [rep2_bw EXCEPT !.open = FALSE]
    /\ merged_bw' = [merged_bw EXCEPT !.open = FALSE]
    /\ fs' = [fs EXCEPT ![merged_bw.path] = File(WrittenData(merged_bw.entries))]
    /\ temp_files' = Append(temp_files, merged_bw.path)
    /\ rep_bw_paths' = Append(rep_bw_paths, merged_bw.path)
    /\ pairings' = Append(pairings, [rep1 |-> rep1_bw.path, rep2 |-> rep2_bw.path,
                                     temp |-> merged_bw.path,
                                     data |-> WrittenData(merged_bw.entries)])
    /\ m_pc' = LoopTarget(rep_bw_paths')
    /\ UNCHANGED <<chroms, chrom_sizes, opath, chrom_idx, m_error, io_fault,
                   init_paths, init_fs, opened, removed, created>>
    /\ UNCHANGED <<cb_vars, cs_vars, bt_vars, main_vars>>

\* Lines 184-186: copy the one path left to opath, remove every temp file.
MFinish ==
    /\ m_pc = "finish"
    /\ \E f \in FaultChoice :
          LET src == rep_bw_paths[1] IN
          IF f \/ ~fs[src].exists
          THEN /\ MRaise("copyfile")
               /\ UNCHANGED <<fs, removed>>
          ELSE /\ fs' = [p \in AllPaths |->
                            IF p \in Range(temp_files) THEN Absent
                            ELSE IF p = opath THEN fs[src]
                            ELSE fs[p]]
               /\ removed' = removed \cup Range(temp_files)
               /\ m_pc' = "returned"
               /\ m_error' = m_error
    /\ UNCHANGED <<rep_bw_paths, chroms, chrom_sizes, opath, temp_files,
                   rep1_bw, rep2_bw, merged_bw, chrom_idx, io_fault,
                   init_paths, init_fs, pairings, opened, created>>
    /\ UNCHANGED <<cb_vars, cs_vars, bt_vars, main_vars>>

MNext ==
    \/ MEntry
    \/ MPopOpen
    \/ MOpenTemp
    \/ MMergeChrom
    \/ MClose
    \/ MFinish

\* The content of the replicate files of SpecMerge.
RepData(p) ==
    IF p = "a.bw" THEN [c \in ChromNames |->
        IF c = "chr1" THEN Stored(<< <<0, 1, 1>> >>) ELSE LookupNone]
    ELSE IF p = "b.bw" THEN [c \in ChromNames |->
        IF c = "chr1" THEN Stored(<< <<1, 2, 2>> >>) ELSE Stored(<< <<0, 1, 1>> >>)]
    ELSE IF p = "c.bw" THEN [c \in ChromNames |->
        IF c = "chr1" THEN LookupErr ELSE Stored(<< <<0, 1, -1>> >>)]
    ELSE [c \in ChromNames |->
        IF c = "chr1" THEN Stored(<< <<0, 2, 1>> >>) ELSE Stored(<<>>)]

RepFiles == [p \in AllPaths |-> IF p \in RepNames THEN File(RepData(p)) ELSE Absent]

\* Calls with 0 .. MaxReps replicate paths in any order (a path may repeat),
\* chromosome sizes that match the names or not, and an environment that
\* fails at most one I/O operation.
MInit ==
    /\ \E paths \in UNION {[1..n -> RepNames] : n \in 0..MaxReps},
          sizes \in {<<MaxLen, MaxLen - 1>>, <<MaxLen>>},
          faults \in {0, 1} :
          MCall(paths, <<"chr1", "chr2">>, sizes, RepFiles, faults)
    /\ CbIdle
    /\ CsIdle
    /\ BtIdle
    /\ MainIdle

SpecMerge == MInit /\ [][MNext]_vars


\* ----------------------- specification: one pairing step, any lookup result

\* What a lookup on one chromosome of a replicate can return in SpecPair.
PairOutcomes ==
    {LookupErr, LookupNone, Stored(<<>>),
     Stored(<< <<0, 1, 1>> >>), Stored(<< <<0, 1, 2>>, <<1, 2, -1>> >>)}

\* A call with two replicates whose lookups on chr1 and chr2 end in every
\* combination of PairOutcomes.
PairInit ==
    /\ \E d1 \in [ChromNames -> PairOutcomes],
          d2 \in [ChromNames -> PairOutcomes],
          faults \in {0, 1} :
          MCall(<<"a.bw", "b.bw">>, <<"chr1", "chr2">>, <<MaxLen, MaxLen - 1>>,
                [p \in AllPaths |->
                    IF p = "a.bw" THEN File(d1)
                    ELSE IF p = "b.bw" THEN File(d2)
                    ELSE Absent],
                faults)
    /\ CbIdle
    /\ CsIdle
    /\ BtIdle
    /\ MainIdle

SpecPair == PairInit /\ [][MNext]_vars

\* -------------------------- specification: N-way reduction of any replicates

\* The chromosome of SpecReduce has ReduceLen bases.
ReduceLen == MaxLen - 1

ReduceData(t) == [c \in ChromNames |-> IF c = "chr1" THEN Stored(t) ELSE LookupErr]

\* A call with two or three replicates holding any tracks over [0, ReduceLen]
\* on chr1 (every order of every three tracks is among them).
ReduceInit ==
    /\ \/ \E t1 \in TracksFrom(0, ReduceLen), t2 \in TracksFrom(0, ReduceLen),
             t3 \in TracksFrom(0, ReduceLen) :
             MCall(<<"a.bw", "b.bw", "c.bw">>, <<"chr1">>, <<ReduceLen>>,
                   [p \in AllPaths |->
                       IF p = "a.bw" THEN File(ReduceData(t1))
                       ELSE IF p = "b.bw" THEN File(ReduceData(t2))
                       ELSE IF p = "c.bw" THEN File(ReduceData(t3))
                       ELSE Absent],
                   0)
       \/ \E t1 \in TracksFrom(0, ReduceLen), t2 \in TracksFrom(0, ReduceLen) :
             MCall(<<"a.bw", "b.bw">>, <<"chr1">>, <<ReduceLen>>,
                   [p \in AllPaths |->
                       IF p = "a.bw" THEN File(ReduceData(t1))
                       ELSE IF p = "b.bw" THEN File(ReduceData(t2))
                       ELSE Absent],
                   0)
    /\ CbIdle
    /\ CsIdle
    /\ BtIdle
    /\ MainIdle

SpecReduce == ReduceInit /\ [][MNext]_vars


\* -------------------------------------- specification: count_single_region

\* The readers of the model: what each stores on chr1 and chr2.
ReaderA == [c \in ChromNames |->
    IF c = "chr1" THEN << <<0, 2, 2>> >> ELSE << <<1, 3, 1>> >>]
ReaderB == [c \in ChromNames |->
    IF c = "chr1" THEN << <<0, 1, -1>>, <<1, 3, -2>> >> ELSE <<>>]

\* A call on any region of [0, MaxCoord] with any paddings, minimum length,
\* policy (one of them unsupported), strand, mode and output type.
CsInit ==
    /\ bw_pl \in {ReaderA, ReaderB}
    /\ bw_mn \in {ReaderA, ReaderB}
    /\ cs_chrom \in ChromNames
    /\ cs_start \in 0..MaxCoord
    /\ cs_end \in 0..MaxCoord
    /\ cs_start < cs_end
    /\ cs_strand \in {"+", "-", "."}
    /\ single_bw \in BOOLEAN
    /\ output_type \in {"raw_count", "RPK"}
    /\ l_pad \in -MaxPad..MaxPad
    /\ r_pad \in -MaxPad..MaxPad
    /\ min_len_after_padding \in 1..MaxMinLen
    /\ method_resolving_invalid_padding \in {"raise", "fallback", "drop"}
    /\ query_start = cs_start /\ query_end = cs_end
    /\ cs_queries = <<>>
    /\ cs_output = NoOutput /\ cs_error = "" /\ cs_pc = "call"
    /\ CbIdle
    /\ MIdle
    /\ BtIdle
    /\ MainIdle

\* Lines 252-262: resolve the padding.
CsPad ==
    /\ cs_pc = "call"
    /\ IF PaddingInvalid(cs_start, cs_end, l_pad, r_pad, min_len_after_padding)
       THEN IF method_resolving_invalid_padding = "fallback"
            THEN /\ query_start' = cs_start /\ query_end' = cs_end
                 /\ cs_pc' = "padded" /\ cs_error' = cs_error
            ELSE IF method_resolving_invalid_padding = "raise"
            THEN /\ cs_pc' = "raised" /\ cs_error' = "padding"
                 /\ UNCHANGED <<query_start, query_end>>
            ELSE /\ cs_pc' = "raised" /\ cs_error' = "method"
                 /\ UNCHANGED <<query_start, query_end>>
       ELSE /\ query_start' = cs_start - l_pad
            /\ query_end' = cs_end + r_pad
            /\ cs_pc' = "padded" /\ cs_error' = cs_error
    /\ UNCHANGED <<bw_pl, bw_mn, cs_chrom, cs_start, cs_end, cs_strand,
                   single_bw, output_type, l_pad, r_pad, min_len_after_padding,
                   method_resolving_invalid_padding, cs_queries, cs_output>>
    /\ UNCHANGED <<cb_vars, m_vars, bt_vars, main_vars>>

Query(name) ==
    [reader |-> name, chrom |-> cs_chrom, start |-> query_start, end |-> query_end]

\* Lines 264-294: query the readers, pick the strand's count, return.
CsCount ==
    /\ cs_pc = "padded"
    /\ LET pl_count == PlusCount(bw_pl, cs_chrom, query_start, query_end)
           mn_count == MnCount(single_bw, bw_mn, cs_chrom, query_start, query_end)
           count    == StrandCount(cs_strand, pl_count, mn_count)
           output   == Output(output_type, count.v, query_start, query_end)
       IN  IF single_bw /\ cs_strand # "."
           THEN /\ cs_queries' = Append(cs_queries, Query("bw_pl"))
                /\ cs_pc' = "raised" /\ cs_error' = "strand"
                /\ UNCHANGED cs_output
           ELSE /\ cs_queries' = IF single_bw
                                 THEN Append(cs_queries, Query("bw_pl"))
                                 ELSE cs_queries \o <<Query("bw_pl"), Query("bw_mn")>>
                /\ IF count.bound /\ output.bound
                   THEN /\ cs_output' = output
                        /\ cs_pc' = "returned" /\ cs_error' = cs_error
                   ELSE /\ cs_pc' = "raised" /\ cs_error' = "UnboundLocalError"
                        /\ UNCHANGED cs_output
    /\ UNCHANGED <<bw_pl, bw_mn, cs_chrom, cs_start, cs_end, cs_strand,
                   single_bw, output_type, l_pad, r_pad, min_len_after_padding,
                   method_resolving_invalid_padding, query_start, query_end>>
    /\ UNCHANGED <<cb_vars, m_vars, bt_vars, main_vars>>

CsNext ==
    \/ CsPad
    \/ CsCount

SpecCount == CsInit /\ [][CsNext]_vars


\* ------------------------------------------------- specification: BedTable3

\* A new table and the rows to load, in any order.
BtInit ==
    /\ bt_input \in UNION {[1..n -> BedRows] : n \in 0..MaxRows}
    /\ bt_rows = <<>>
    /\ bt_call = NoCall
    /\ bt_result = <<>>
    /\ bt_pc = "new"
    /\ CbIdle
    /\ MIdle
    /\ CsIdle
    /\ MainIdle

\* Lines 55-71 / 73-97: load_from_file or load_from_dataframe.
BtLoad ==
    /\ bt_pc = "new"
    /\ bt_rows' = load_from_dataframe(bt_input)
    /\ bt_pc' = "loaded"
    /\ UNCHANGED <<bt_input, bt_call, bt_result>>
    /\ UNCHANGED <<cb_vars, m_vars, cs_vars, main_vars>>

\* Lines 99-112: apply_logical_filter with a boolean array of the table's length.
BtFilter ==
    /\ bt_pc = "loaded"
    /\ \E logical_array \in [1..Len(bt_rows) -> BOOLEAN] :
          /\ bt_call' = [NoCall EXCEPT !.op = "filter", !.mask = logical_array]
          /\ bt_result' = apply_logical_filter(bt_rows, logical_array)
    /\ bt_pc' = "derived"
    /\ UNCHANGED <<bt_input, bt_rows>>
    /\ UNCHANGED <<cb_vars, m_vars, cs_vars, main_vars>>

\* Lines 114-130: region_subset on any chromosome and bounds.
BtSubset ==
    /\ bt_pc = "loaded"
    /\ \E c \in BedChroms, from \in BedCoords, to \in BedCoords :
          /\ bt_call' = [NoCall EXCEPT !.op = "subset", !.chrom = c,
                                       !.start = from, !.end = to]
          /\ bt_result' = region_subset(bt_rows, c, from, to)
    /\ bt_pc' = "derived"
    /\ UNCHANGED <<bt_input, bt_rows>>
    /\ UNCHANGED <<cb_vars, m_vars, cs_vars, main_vars>>

BtNext ==
    \/ BtLoad
    \/ BtFilter
    \/ BtSubset

SpecBed == BtInit /\ [][BtNext]_vars


\* ------------------------------------------------------ specification: main

\* The bigwig paths of the command line.
PlPath(i) == "pl" \o ToString(i) \o ".bw"
MnPath(i) == "mn" \o ToString(i) \o ".bw"

\* What the file at a path stores.
BwFile(path) ==
    IF \E i \in 1..MaxSamples : path = PlPath(i) THEN ReaderA ELSE ReaderB

\* The rows a region file can hold: <<chrom, start, end, strand>>.
RegionPool == {<<"chr1", 0, 2, "+">>, <<"chr1", 1, 2, "-">>}

\* The paddings of the command line: none, or one base off the left end.
MainPads == {-1, 0}

\* A command line with any list lengths, flags, type tags, output type,
\* minimum length and policy (legal or not), a region file that may be
\* missing, and no output directory yet.
MainInit ==
    /\ \E n_names \in 1..MaxSamples, n_pls \in 1..MaxSamples,
          n_mns \in 1..MaxSamples :
          args \in [sample_names : {[i \in 1..n_names |-> i]},
                    bw_pls : {[i \in 1..n_pls |-> PlPath(i)]},
                    bw_mns : {[i \in 1..n_mns |-> MnPath(i)]},
                    single_bw : BOOLEAN,
                    ignore_strandness : BOOLEAN,
                    region_file_type : {"bed3", "bed6", "bed12"},
                    output_type : {"raw_count", "RPK", "TPM"},
                    l_pad : MainPads,
                    r_pad : {0},
                    min_len_after_padding : 0..1,
                    method_resolving_invalid_padding :
                        {"raise", "fallback", "clip"}]
    /\ main_fs \in [region_file : BOOLEAN, opath : {FALSE}, files : {{}}]
    /\ region_file \in UNION {[1..n -> RegionPool] : n \in 0..MaxRegions}
    /\ region_df = <<>>
    /\ count_df = <<>>
    /\ sample_idx = 0 /\ region_idx = 0
    /\ main_bw_pl = 0 /\ main_bw_mn = 0
    /\ handles = <<>> /\ events = <<>>
    /\ main_pc = "start" /\ main_error = ""
    /\ CbIdle
    /\ MIdle
    /\ CsIdle
    /\ BtIdle

\* Line 297: args_check_and_preprocessing, with the makedirs of lines 175-176.
MainArgsCheck ==
    /\ main_pc = "start"
    /\ LET err == ArgsError(args, main_fs.region_file) IN
          /\ args' = IF args.single_bw
                     THEN [args EXCEPT !.bw_mns = args.bw_pls] ELSE args
          /\ main_fs' = IF err \in {"strandness", "cardinality", "region file"}
                        THEN main_fs ELSE [main_fs EXCEPT !.opath = TRUE]
          /\ IF err = ""
             THEN main_pc' = "checked" /\ main_error' = main_error
             ELSE main_pc' = "raised" /\ main_error' = "validation"
    /\ UNCHANGED <<region_file, region_df, count_df, sample_idx, region_idx,
                   main_bw_pl, main_bw_mn, handles, events>>
    /\ UNCHANGED <<cb_vars, m_vars, cs_vars, bt_vars>>

\* Lines 299-308: parse_region_input (the table sorts its rows on load; a
\* bed3 file stops at line 216, BedTable6 has no load_from_BedTable3), the
\* strand column of lines 303-304 and the empty count matrix.
MainParse ==
    /\ main_pc = "checked"
    /\ IF args.region_file_type = "bed3"
       THEN /\ main_pc' = "raised" /\ main_error' = "parse"
            /\ UNCHANGED <<region_df, count_df>>
       ELSE /\ region_df' =
                  LET table == load_from_dataframe(region_file) IN
                  [k \in 1..Len(table) |->
                      IF args.ignore_strandness
                      THEN <<table[k][1], table[k][2], table[k][3], ".">>
                      ELSE table[k]]
            /\ count_df' = [i \in 1..Len(args.sample_names) |->
                               [k \in 1..Len(region_file) |-> NoOutput]]
            /\ main_pc' = "loop" /\ main_error' = main_error
    /\ UNCHANGED <<args, main_fs, region_file, sample_idx, region_idx,
                   main_bw_pl, main_bw_mn, handles, events>>
    /\ UNCHANGED <<cb_vars, m_vars, cs_vars, bt_vars>>

NewHandle(path, sample) ==
    [path |-> path, sample |-> sample, data |-> BwFile(path), closes |-> 0]

\* Lines 313-317: the opens of the next sample; either pyBigWig.open may fail.
MainOpen ==
    /\ main_pc = "loop"
    /\ sample_idx < Len(args.sample_names)
    /\ \E pl_ok \in BOOLEAN, mn_ok \in BOOLEAN :
          LET pl_path == args.bw_pls[sample_idx + 1]
              mn_path == args.bw_mns[sample_idx + 1]
              h == Len(handles) + 1
          IN  IF ~pl_ok
              THEN /\ main_pc' = "raised" /\ main_error' = "open"
                   /\ UNCHANGED <<main_bw_pl, main_bw_mn, handles, events>>
              ELSE IF args.single_bw
              THEN /\ handles' = Append(handles, NewHandle(pl_path, sample_idx + 1))
                   /\ events' = Append(events, <<"open", h>>)
                   /\ main_bw_pl' = h /\ main_bw_mn' = h
                   /\ main_pc' = "sample" /\ main_error' = main_error
              ELSE IF ~mn_ok
              THEN /\ handles' = Append(handles, NewHandle(pl_path, sample_idx + 1))
                   /\ events' = Append(events, <<"open", h>>)
                   /\ main_bw_pl' = h /\ main_bw_mn' = main_bw_mn
                   /\ main_pc' = "raised" /\ main_error' = "open"
              ELSE /\ handles' = handles \o <<NewHandle(pl_path, sample_idx + 1),
                                          NewHandle(mn_path, sample_idx + 1)>>
                   /\ events' = events \o << <<"open", h>>, <<"open", h + 1>> >>
                   /\ main_bw_pl' = h /\ main_bw_mn' = h + 1
                   /\ main_pc' = "sample" /\ main_error' = main_error
    /\ region_idx' = 0
    /\ UNCHANGED <<args, main_fs, region_file, region_df, count_df, sample_idx>>
    /\ UNCHANGED <<cb_vars, m_vars, cs_vars, bt_vars>>

\* Lines 319-332: one region of the current sample; the output goes to every
\* row of the matrix with the region's id.
MainCountRegion ==
    /\ main_pc = "sample"
    /\ region_idx < Len(region_df)
    /\ LET r == region_df[region_idx + 1]
           res == count_single_region(handles[main_bw_pl].data,
                                      handles[main_bw_mn].data,
                                      r[1], r[2], r[3], r[4],
                                      args.single_bw, args.output_type,
                                      args.l_pad, args.r_pad,
                                      args.min_len_after_padding,
                                      args.method_resolving_invalid_padding)
           reads == [q \in 1..Len(res.queried) |->
                        <<"values",
                          IF res.queried[q] = "bw_pl" THEN main_bw_pl ELSE main_bw_mn>>]
       IN  /\ events' = events \o reads
           /\ IF res.raised
              THEN /\ main_pc' = "raised" /\ main_error' = "region"
                   /\ UNCHANGED <<count_df, region_idx>>
              ELSE /\ count_df' =
                         [count_df EXCEPT ![sample_idx + 1] =
                             [k \in 1..Len(region_df) |->
                                 IF RegionId(region_df[k]) = RegionId(r)
                                 THEN res.output ELSE @[k]]]
                   /\ region_idx' = region_idx + 1
                   /\ UNCHANGED <<main_pc, main_error>>
    /\ UNCHANGED <<args, main_fs, region_file, region_df, sample_idx,
                   main_bw_pl, main_bw_mn, handles>>
    /\ UNCHANGED <<cb_vars, m_vars, cs_vars, bt_vars>>

\* Lines 334-335: bw_pl.close(), then bw_mn.close().
MainClose ==
    /\ main_pc = "sample"
    /\ region_idx = Len(region_df)
    /\ handles' =
          LET after_pl == [handles EXCEPT ![main_bw_pl].closes = @ + 1]
          IN  [after_pl EXCEPT ![main_bw_mn].closes = @ + 1]
    /\ events' = events \o << <<"close", main_bw_pl>>, <<"close", main_bw_mn>> >>
    /\ sample_idx' = sample_idx + 1
    /\ main_pc' = "loop"
    /\ UNCHANGED <<args, main_fs, region_file, region_df, count_df, region_idx,
                   main_bw_pl, main_bw_mn, main_error>>
    /\ UNCHANGED <<cb_vars, m_vars, cs_vars, bt_vars>>

\* Lines 337-340: the matrix file; the write may fail.
MainWriteCounts ==
    /\ main_pc = "loop"
    /\ sample_idx = Len(args.sample_names)
    /\ \E ok \in BOOLEAN :
          IF ok
          THEN /\ main_fs' = [main_fs EXCEPT !.files = @ \cup
                     {IF args.output_type = "RPK" THEN "job.RPK.csv"
                                                  ELSE "job.count.csv"}]
               /\ events' = Append(events, <<"to_csv", 0>>)
               /\ main_pc' = "matrix written" /\ main_error' = main_error
          ELSE /\ main_pc' = "raised" /\ main_error' = "write"
               /\ UNCHANGED <<main_fs, events>>
    /\ UNCHANGED <<args, region_file, region_df, count_df, sample_idx,
                   region_idx, main_bw_pl, main_bw_mn, handles>>
    /\ UNCHANGED <<cb_vars, m_vars, cs_vars, bt_vars>>

\* Line 342: the region-info file; the write may fail.
MainWriteRegions ==
    /\ main_pc = "matrix written"
    /\ \E ok \in BOOLEAN :
          IF ok
          THEN /\ main_fs' = [main_fs EXCEPT !.files = @ \cup {"job.region_info.csv"}]
               /\ events' = Append(events, <<"to_csv", 0>>)
               /\ main_pc' = "done" /\ main_error' = main_error
          ELSE /\ main_pc' = "raised" /\ main_error' = "write"
               /\ UNCHANGED <<main_fs, events>>
    /\ UNCHANGED <<args, region_file, region_df, count_df, sample_idx,
                   region_idx, main_bw_pl, main_bw_mn, handles>>
    /\ UNCHANGED <<cb_vars, m_vars, cs_vars, bt_vars>>

MainNext ==
    \/ MainArgsCheck
    \/ MainParse
    \/ MainOpen
    \/ MainCountRegion
    \/ MainClose
    \/ MainWriteCounts
    \/ MainWriteRegions

SpecMain == MainInit /\ [][MainNext]_vars

\* --------------------------------------------- claims: combine_bw_intervals

\* The per-base sum of the two arguments at position p.
CbSum(p) == ValueAt(cb_rep1, p) + ValueAt(cb_rep2, p)

CbInputsWithin(hi) == Within(cb_rep1, hi) /\ Within(cb_rep2, hi)

\* C2 (as claimed): for tracks lying in [0, L) and every position p of
\* [0, L), the result has an interval covering p with value v exactly when
\* the per-base sum at p is nonzero and equals v.
C2_CoversExactlyNonzero ==
    (cb_pc = "done" /\ CbInputsWithin(cb_chrom_length)) =>
        \A p \in 0..(cb_chrom_length - 1) :
            \A v \in -4..4 :
                (\E k \in 1..Len(cb_result) :
                     /\ cb_result[k][1] <= p /\ p < cb_result[k][2]
                     /\ cb_result[k][3] = v)
                <=> (CbSum(p) # 0 /\ CbSum(p) = v)

\* C3 (as claimed, the direct call): merging a coalesced track A within
\* [0, L] with the empty track returns exactly A.
C3_MergeIdentity ==
    (/\ cb_pc = "done"
     /\ cb_rep2 = <<>>
     /\ IsCoalesced(cb_rep1)
     /\ Within(cb_rep1, cb_chrom_length)) => cb_result = cb_rep1

\* C4: the returned list is ordered by start, its intervals are non-empty
\* and pairwise non-overlapping, no two touching neighbours carry the same
\* value, and every returned interval is a maximal constant run of the
\* per-base sum.
C4_Coalesced ==
    cb_pc = "done" =>
        /\ IsTrack(cb_result)
        /\ IsCoalesced(cb_result)
        /\ \A k \in 1..Len(cb_result) :
              LET iv == cb_result[k] IN
              /\ \A p \in iv[1]..(iv[2] - 1) : CbSum(p) = iv[3]
              /\ iv[1] = 0 \/ CbSum(iv[1] - 1) # iv[3]
              /\ CbSum(iv[2]) # iv[3]

\* C4's case: an argument that is not coalesced (two touching intervals of
\* one value) yields a result with two touching intervals.
C4_Witness ==
    /\ cb_pc = "done"
    /\ ~IsCoalesced(cb_rep1)
    /\ Len(cb_result) >= 2
    /\ cb_result[1][2] = cb_result[2][1]

\* ---------------------------------------------------- claims: merge_bw_files

\* The per-base sum at p of chromosome c over the replicates of the call.
RECURSIVE SumOfInputs(_, _, _)
SumOfInputs(k, c, p) ==
    IF k = 0 THEN 0
    ELSE ValueAt(init_fs[init_paths[k]].data[c].ivs, p) + SumOfInputs(k - 1, c, p)

\* C5 (as claimed): whatever the order of the replicates, the track left at
\* opath has at every base the sum of all replicates at that base.
C5_ReductionIsPerBaseSum ==
    m_pc = "returned" =>
        \A k \in 1..Len(chroms) :
            \A p \in 0..(chrom_sizes[k] - 1) :
                ValueAt(fs[opath].data[chroms[k]].ivs, p)
                    = SumOfInputs(Len(init_paths), chroms[k], p)

\* C6 (as claimed): when an error leaves merge_bw_files after a temporary
\* file was created, no temporary file created by the call exists any more.
C6_TempsReleasedOnError ==
    (m_pc = "raised" /\ created # {}) =>
        \A t \in created : ~fs[t].exists

\* C7 (as claimed): a successful run over N >= 2 paths made exactly N - 1
\* pairing steps, each writing a temporary whose path differs from both paths
\* it read and from every other temporary; opath holds the last step's
\* track, no temporary exists and no original replicate file was removed.
C7_SuccessfulRun ==
    m_pc = "returned" =>
        /\ Len(pairings) = Len(init_paths) - 1
        /\ \A k \in 1..Len(pairings) :
              /\ pairings[k].temp # pairings[k].rep1
              /\ pairings[k].temp # pairings[k].rep2
              /\ \A j \in 1..Len(pairings) :
                    j # k => pairings[j].temp # pairings[k].temp
              /\ ~fs[pairings[k].temp].exists
        /\ fs[opath] = File(pairings[Len(pairings)].data)
        /\ \A k \in 1..Len(init_paths) :
              /\ init_paths[k] \notin removed
              /\ fs[init_paths[k]].exists

\* C8: a call with fewer than 2 paths never gets past the first check: it
\* fails with the ValueError of line 113, no reader was opened, no file was
\* created, removed or changed, and the path list is as the caller gave it.
C8_TooFewFilesFails ==
    Len(init_paths) < 2 =>
        /\ m_pc \in {"entry", "raised"}
        /\ m_pc = "raised" => m_error = "ValueError: files"
        /\ opened = {} /\ created = {} /\ removed = {}
        /\ ~rep1_bw.open /\ ~rep2_bw.open /\ ~merged_bw.open
        /\ fs = init_fs
        /\ rep_bw_paths = init_paths

\* C8's case: the call with one path has failed.
C8_Witness ==
    /\ Len(init_paths) = 1
    /\ m_pc = "raised"

\* A lookup that is treated as the all-zero track.
IsEmptyLookup(r) == r.kind \in {"err", "none"} \/ Len(r.ivs) = 0

\* C9: in a pairing step, for every chromosome already handled: when both
\* lookups were empty (raised, None or no interval) addEntries was not
\* called, and when exactly one was empty the entries added are the other
\* replicate's intervals.  No lookup makes the step fail: without an I/O
\* failure the run never raises, and a failing addEntries never belongs to a
\* chromosome empty in both replicates.
C9_EmptySideIsZeroTrack ==
    /\ m_pc \in {"chroms", "close"} =>
          \A k \in 1..(chrom_idx - 1) :
              LET c  == chroms[k]
                  r1 == rep1_bw.data[c]
                  r2 == rep2_bw.data[c]
                  w  == merged_bw.entries[c]
              IN  /\ (IsEmptyLookup(r1) /\ IsEmptyLookup(r2)) => ~w.called
                  /\ (IsEmptyLookup(r1) /\ ~IsEmptyLookup(r2)) => w = Entries(r2.ivs)
                  /\ (~IsEmptyLookup(r1) /\ IsEmptyLookup(r2)) => w = Entries(r1.ivs)
    /\ (io_fault = 0 /\ Len(init_paths) >= 2 /\ Len(chroms) = Len(chrom_sizes))
          => m_pc # "raised"
    /\ (m_pc = "raised" /\ m_error = "addEntries") =>
          ~(/\ IsEmptyLookup(rep1_bw.data[chroms[chrom_idx]])
            /\ IsEmptyLookup(rep2_bw.data[chroms[chrom_idx]]))

\* C9's case: chr1 raised in replicate 1 and has intervals in replicate 2,
\* chr2 is empty in both (None in one, no interval in the other), and both
\* chromosomes have been handled.
C9_Witness ==
    /\ m_pc = "close"
    /\ rep1_bw.data["chr1"].kind = "err"
    /\ ~IsEmptyLookup(rep2_bw.data["chr1"])
    /\ rep1_bw.data["chr2"].kind = "none"
    /\ rep2_bw.data["chr2"] = Stored(<<>>)
    /\ merged_bw.entries["chr1"].called
    /\ ~merged_bw.entries["chr2"].called

\* ----------------------------------------------- claims: count_single_region

\* Both paddings were applied to the queried bounds.
PaddingApplied == query_start = cs_start - l_pad /\ query_end = cs_end + r_pad

\* The queried bounds are the region's own.
OriginalBounds == query_start = cs_start /\ query_end = cs_end

\* Every call of values() made so far used the bounds [from, to).
QueriesUse(from, to) ==
    \A k \in 1..Len(cs_queries) :
        cs_queries[k].start = from /\ cs_queries[k].end = to

\* C1 (as claimed): the padding is invalid exactly when
\* (end - start) < (min_len_after_padding + l_pad + r_pad); then "raise"
\* fails and "fallback" queries the original bounds, and otherwise the
\* padded bounds are queried.
C1_InvalidAsSpecified ==
    cs_pc \in {"padded", "returned", "raised"} =>
        IF PaddingInvalidAsSpecified(cs_start, cs_end, l_pad, r_pad,
                                     min_len_after_padding)
        THEN /\ method_resolving_invalid_padding = "raise" =>
                    (cs_pc = "raised" /\ cs_error = "padding")
             /\ method_resolving_invalid_padding = "fallback" =>
                    (cs_error # "padding" /\ OriginalBounds
                     /\ QueriesUse(cs_start, cs_end))
        ELSE /\ cs_error # "padding"
             /\ PaddingApplied
             /\ QueriesUse(cs_start - l_pad, cs_end + r_pad)

\* C1 (amended): the padding is invalid exactly when the padded length
\* (end - start) + l_pad + r_pad is below min_len_after_padding; then
\* "raise" fails with no value returned and no query made, "fallback"
\* queries the original bounds, and otherwise the padded bounds are queried.
C1_InvalidWhenPaddedTooShort ==
    cs_pc \in {"padded", "returned", "raised"} =>
        IF (cs_end - cs_start) + l_pad + r_pad < min_len_after_padding
        THEN /\ method_resolving_invalid_padding = "raise" =>
                    /\ cs_pc = "raised" /\ cs_error = "padding"
                    /\ cs_output = NoOutput /\ cs_queries = <<>>
             /\ method_resolving_invalid_padding = "fallback" =>
                    /\ cs_error # "padding" /\ OriginalBounds
                    /\ QueriesUse(cs_start, cs_end)
        ELSE /\ cs_error # "padding"
             /\ PaddingApplied
             /\ QueriesUse(cs_start - l_pad, cs_end + r_pad)

\* C1's case: a padding that shrinks the region below the minimum, under
\* "fallback", after the readers were queried on the original bounds.
C1_Witness ==
    /\ cs_pc = "returned"
    /\ method_resolving_invalid_padding = "fallback"
    /\ (cs_end - cs_start) + l_pad + r_pad < min_len_after_padding
    /\ l_pad + r_pad # 0
    /\ Len(cs_queries) = 2
    /\ QueriesUse(cs_start, cs_end)

\* The sum of what a reader stores on [from, to) of a chromosome, bases
\* without a stored value counting 0.
RECURSIVE StoredSum(_, _, _, _)
StoredSum(bw, chrom_name, from, to) ==
    IF from >= to THEN 0
    ELSE ValueAt(bw[chrom_name], from) + StoredSum(bw, chrom_name, from + 1, to)

\* C10: in two-track mode with output_type raw_count, with P and M the sums
\* of the plus and of the minus reader over the queried bounds, the call
\* returns P for strand "+", -M for strand "-" and P + (-M) for strand ".",
\* and both readers were queried on the same chromosome and bounds.
C10_StrandCounts ==
    (cs_pc = "returned" /\ ~single_bw /\ output_type = "raw_count") =>
        LET P == StoredSum(bw_pl, cs_chrom, query_start, query_end)
            M == StoredSum(bw_mn, cs_chrom, query_start, query_end)
        IN  /\ cs_output.den = 1
            /\ cs_strand = "+" => cs_output.num = P
            /\ cs_strand = "-" => cs_output.num = -M
            /\ cs_strand = "." => cs_output.num = P + (-M)
            /\ cs_queries = <<Query("bw_pl"), Query("bw_mn")>>

\* C10's case: strand ".", a positive plus sum and a negative minus sum
\* (the stored minus values are negative), added up to more than the plus sum.
C10_Witness ==
    /\ cs_pc = "returned" /\ ~single_bw /\ output_type = "raw_count"
    /\ cs_strand = "."
    /\ StoredSum(bw_pl, cs_chrom, query_start, query_end) > 0
    /\ StoredSum(bw_mn, cs_chrom, query_start, query_end) < 0
    /\ cs_output.num > StoredSum(bw_pl, cs_chrom, query_start, query_end)

\* The sum the plus reader stores over the queried bounds.
PlusSum == StoredSum(bw_pl, cs_chrom, query_start, query_end)

\* The sum the minus reader stores over the queried bounds.
MinusSum == StoredSum(bw_mn, cs_chrom, query_start, query_end)

\* C11: in single-track mode no call of values() goes to the minus reader;
\* once the padding is resolved a region whose strand is not "." makes the
\* call fail and never return, and for strand "." the value returned is the
\* plus reader's sum alone (per kilobase of the queried length under RPK).
C11_SingleTrackMode ==
    single_bw =>
        /\ \A k \in 1..Len(cs_queries) : cs_queries[k].reader = "bw_pl"
        /\ cs_strand # "." => cs_pc # "returned"
        /\ (cs_strand # "." /\ cs_pc = "raised") => cs_error \in {"padding", "method", "strand"}
        /\ (cs_strand # "." /\ cs_pc = "raised" /\ Len(cs_queries) > 0) => cs_error = "strand"
        /\ (cs_strand = "." /\ cs_pc = "returned") =>
              /\ cs_queries = <<Query("bw_pl")>>
              /\ output_type = "raw_count" =>
                    (cs_output.num = PlusSum /\ cs_output.den = 1)
              /\ output_type = "RPK" =>
                    /\ cs_output.num = PlusSum * PerKilobase
                    /\ cs_output.den = query_end - query_start

\* C11's case: single-track mode, strand ".", a minus reader that stores a
\* nonzero sum over the queried bounds, and the plus sum returned.
C11_Witness ==
    /\ single_bw /\ cs_strand = "." /\ cs_pc = "returned"
    /\ output_type = "raw_count"
    /\ MinusSum # 0 /\ PlusSum # 0
    /\ cs_output.num = PlusSum

\* The raw_count result for the state's readers, region, strand and padding.
RawCount ==
    LET M == IF single_bw THEN 0 ELSE -MinusSum IN
    IF cs_strand = "+" THEN PlusSum
    ELSE IF cs_strand = "-" THEN M
    ELSE PlusSum + M

\* The length of the bounds that had to be queried: the region's own when
\* the fallback policy discarded the padding, the padded ones otherwise.
EffectiveLength ==
    IF /\ (cs_end - cs_start) + l_pad + r_pad < min_len_after_padding
       /\ method_resolving_invalid_padding = "fallback"
    THEN cs_end - cs_start
    ELSE (cs_end + r_pad) - (cs_start - l_pad)

\* C12: with output_type RPK the value returned is the raw_count result
\* divided by the effective length and multiplied by 1000 (as the fraction
\* num / den: den is the effective length, num is 1000 times the raw count).
C12_RpkFormula ==
    (cs_pc = "returned" /\ output_type = "RPK") =>
        /\ cs_output.den = EffectiveLength
        /\ cs_output.den > 0
        /\ cs_output.num = RawCount * PerKilobase
        /\ query_end - query_start = EffectiveLength

\* C12's case: RPK of a nonzero count after the fallback policy discarded a
\* padding that would have changed the length.
C12_Witness ==
    /\ cs_pc = "returned" /\ output_type = "RPK"
    /\ method_resolving_invalid_padding = "fallback"
    /\ (cs_end - cs_start) + l_pad + r_pad < min_len_after_padding
    /\ l_pad + r_pad # 0
    /\ RawCount # 0
    /\ cs_output.den = cs_end - cs_start

C16_TrailingRunNotFlushed ==
    (cb_pc = "done" /\ cb_chrom_length >= 1) =>
        /\ \A k \in 1..Len(cb_result) : cb_result[k][2] <= cb_chrom_length - 1
        /\ CbSum(cb_chrom_length - 1) # 0 =>
              ~Covered(cb_result, cb_chrom_length - 1)

\* C16's case: both tracks lie in [0, L], the sum at L - 1 is nonzero, and
\* the runs before the last one were returned.
C16_Witness ==
    /\ cb_pc = "done"
    /\ CbInputsWithin(cb_chrom_length)
    /\ CbSum(cb_chrom_length - 1) # 0
    /\ Len(cb_result) >= 1
    /\ cb_result[Len(cb_result)][2] = cb_chrom_length - 1

\* ----------------------------------------------------------- claims: BedTable3

\* How often a row occurs in a sequence of rows.
Occurrences(r, rows) == Cardinality({k \in 1..Len(rows) : rows[k] = r})

SameRows(a, b) == \A r \in BedRows : Occurrences(r, a) = Occurrences(r, b)

\* Row a is not after row b in the lexicographic order on (chrom, start, end).
LexLeq(a, b) ==
    LET ka == <<ChromRank(a[1]), a[2], a[3]>>
        kb == <<ChromRank(b[1]), b[2], b[3]>>
    IN  \/ ka = kb
        \/ \E n \in 1..3 : ka[n] < kb[n] /\ \A m \in 1..(n - 1) : ka[m] = kb[m]

LexSorted(rows) == \A k \in 1..(Len(rows) - 1) : LexLeq(rows[k], rows[k + 1])

\* C13: after a load the table holds the input rows (same multiset) in
\* non-decreasing lexicographic order of (chrom, start, end); _is_sorted is
\* true of a sequence of rows exactly when all its consecutive rows are in
\* that order; the tables returned by apply_logical_filter and
\* region_subset are in that order too.
C13_LoadedTableSorted ==
    /\ is_sorted(bt_input) <=> LexSorted(bt_input)
    /\ bt_pc \in {"loaded", "derived"} =>
          /\ SameRows(bt_rows, bt_input)
          /\ LexSorted(bt_rows)
          /\ is_sorted(bt_rows)
    /\ bt_pc = "derived" =>
          /\ LexSorted(bt_result)
          /\ is_sorted(bt_result)

\* C13's case: the input had two rows of one chromosome and start in the
\* wrong order of their ends, and the table has been loaded.
C13_Witness ==
    /\ bt_pc = "loaded"
    /\ Len(bt_input) >= 2
    /\ bt_input[1][1] = bt_input[2][1]
    /\ bt_input[1][2] = bt_input[2][2]
    /\ bt_input[1][3] > bt_input[2][3]
    /\ bt_rows # bt_input

\* A row fully contained in the bounds of the last region_subset call.
Contained(r) ==
    r[1] = bt_call.chrom /\ r[2] >= bt_call.start /\ r[3] <= bt_call.end

\* C14: region_subset returns exactly the rows of the table with the
\* chromosome asked for, start >= the start and end <= the end asked for
\* (each as often as the table holds it), and leaves the table as loaded.
C14_SubsetIsContainment ==
    (bt_pc = "derived" /\ bt_call.op = "subset") =>
        /\ \A r \in BedRows :
              Occurrences(r, bt_result)
                  = IF Contained(r) THEN Occurrences(r, bt_rows) ELSE 0
        /\ SameRows(bt_rows, bt_input)
        /\ LexSorted(bt_rows)

\* C14's case: the table holds a contained row, a row that overlaps the
\* bounds without being contained, and a row of another chromosome.
C14_Witness ==
    /\ bt_pc = "derived" /\ bt_call.op = "subset"
    /\ Len(bt_result) >= 1
    /\ \E k \in 1..Len(bt_rows) :
          /\ bt_rows[k][1] = bt_call.chrom
          /\ bt_rows[k][2] < bt_call.end /\ bt_rows[k][3] > bt_call.end
    /\ \E k \in 1..Len(bt_rows) : bt_rows[k][1] # bt_call.chrom

\* ------------------------------------------------------------- claims: main

\* The four checks named by C15, stated on the command line itself.
ChecksPass ==
    /\ Len(args.sample_names) = Len(args.bw_pls)
    /\ Len(args.sample_names) = Len(args.bw_mns)
    /\ args.region_file_type \in {"bed3", "bed6", "bed6gene"}
    /\ args.output_type \in {"raw_count", "RPK"}
    /\ args.method_resolving_invalid_padding \in {"raise", "fallback"}

\* C15: in a run of main a reader is opened or a region processed only after
\* the checks of list cardinality, region-file type, output type and padding
\* policy have all passed; and when the run was aborted at validation or in a
\* per-region computation, neither the matrix file nor the region-info file
\* has been written.
C15_ValidationFirstNoPartialOutput ==
    /\ (main_pc \notin {"idle", "start"} /\ (handles # <<>> \/ events # <<>>
            \/ main_pc \in {"sample", "matrix written", "done"})) => ChecksPass
    /\ (main_pc = "raised" /\ main_error \in {"validation", "region"}) =>
          main_fs.files = {}

\* C15's case: a run that opened its readers, read a region and then was
\* aborted by a region whose padding is invalid.
C15_Witness ==
    /\ main_pc = "raised" /\ main_error = "region"
    /\ \E e \in 1..Len(events) : events[e][1] = "values"
    /\ region_idx >= 1
    /\ main_fs.files = {}

\* The positions of the events of one kind on one handle.
EventsOf(kind, h) == {e \in 1..Len(events) : events[e] = <<kind, h>>}

\* C18: in an error-free run every handle opened is closed exactly once, after
\* its last read, before any handle of a later sample is opened and before any
\* output file is written, in two-track and in single-track mode.
C18_EachHandleClosedOnce ==
    main_pc = "done" =>
        \A h \in 1..Len(handles) :
            /\ handles[h].closes = 1
            /\ Cardinality(EventsOf("close", h)) = 1
            /\ \A c \in EventsOf("close", h) :
                  /\ \A e \in EventsOf("values", h) : e < c
                  /\ \A e \in 1..Len(events) :
                        (events[e][1] = "to_csv") => c < e
                  /\ \A g \in 1..Len(handles) : \A e \in EventsOf("open", g) :
                        handles[g].sample > handles[h].sample => c < e

====
